---------------------------- MODULE Spec2Model ----------------------------
(***************************************************************************)
(* A model of tinycss/core.py: the recursive-descent parser for the CSS    *)
(* core syntax (CoreParser).  Tokens are the grouped tokens produced by    *)
(* tokenize_grouped: records with a type, a value, the source text as_css  *)
(* (a sequence of characters), the content of a container and a position.  *)
(* A raised exception is a record whose field `exception` names its class; *)
(* a normal return has exception = "none".                                 *)
(***************************************************************************)
EXTENDS Naturals, Sequences, FiniteSets, TLC

VARIABLES
    entry,         \* the entry point called
    tokens,        \* the token stream handed to the entry point
    pos,           \* number of tokens the iterator `tokens` has yielded so far
    rules,         \* parse_rules: the list `rules`
    errors,        \* the list `errors` of the running call
    declarations,  \* parse_declaration_list: the list `declarations`
    derived,       \* parse_at_rule methods of the subclasses, in MRO order
    pc,            \* "run" while the call runs, "returned", or "raised"
    raised,        \* the exception that escaped the call, NoException if none
    attempts       \* history: one record per iteration of parse_rules' loop

vars == <<entry, tokens, pos, rules, errors, declarations, derived, pc,
          raised, attempts>>

-----------------------------------------------------------------------------
(* Bounds of the model.                                                     *)

\* longest top-level token stream handed to parse_rules
MaxTokens == 4
\* longest token list handed to parse_declaration_list / parse_declaration
MaxSegment == 5
\* most tokens, nested ones included, handed to validate_any / validate_block
MaxSize == 4
\* number of subclasses below CoreParser that define parse_at_rule
MaxDerived == 2

-----------------------------------------------------------------------------
(* Tokens.                                                                  *)

None == [type |-> "None"]

Token(type_, value, as_css) ==
    [type |-> type_, value |-> value, as_css |-> as_css, content |-> <<>>,
     line |-> 1, column |-> 0]

ContainerToken(type_, content, line, column) ==
    [type |-> type_, value |-> "", as_css |-> <<>>, content |-> content,
     line |-> line, column |-> column]

\* str.lower() on the strings of the model's alphabet
Lower(s) ==
    CASE s = "A" -> "a"
      [] s = "B" -> "b"
      [] s = "@Charset" -> "@charset"
      [] s = "@CHARSET" -> "@charset"
      [] s = "@Foo" -> "@foo"
      [] OTHER -> s

\* The positions the tokenizer gives: every token, nested or not, starts at
\* its own column of line 1, numbered in source order from column `n`.
RECURSIVE Locate(_, _)
Locate(seq, n) ==
    IF seq = <<>> THEN [toks |-> <<>>, n |-> n]
    ELSE LET head == Head(seq)
             inner == Locate(head.content, n + 1)
             rest == Locate(Tail(seq), inner.n)
         IN  [toks |-> <<[head EXCEPT !.content = inner.toks,
                                      !.line = 1, !.column = n]>> \o rest.toks,
              n |-> rest.n]

tokenize_grouped(shape) == Locate(shape, 1).toks

-----------------------------------------------------------------------------
(* Exceptions.                                                              *)

NoException == [exception |-> "none"]

ParseError(subject, reason) ==
    [exception |-> "ParseError", line |-> subject.line,
     column |-> subject.column, reason |-> reason]

\* reading a local variable that no assignment has bound yet
UnboundLocalError == [exception |-> "UnboundLocalError"]

\* next() on an exhausted iterator
StopIteration == [exception |-> "StopIteration"]

IsParseError(e) == e.exception = "ParseError"

\* the exception object itself of a result that carries one
ExceptionOf(result) ==
    [k \in DOMAIN result \cap {"exception", "line", "column", "reason"}
        |-> result[k]]

-----------------------------------------------------------------------------
(* validate_any and validate_block.                                         *)

AnyTypes == {"S", "IDENT", "DIMENSION", "PERCENTAGE", "NUMBER", "URI",
             "DELIM", "STRING", "HASH", ":", "UNICODE-RANGE"}

Adjective(type_) ==
    IF type_ \in {"}", ")", "]"} THEN "unmatched" ELSE "unexpected"

\* `e` if it is a raised exception, else what the code goes on to do
OrElse(e, rest) == IF e.exception # "none" THEN e ELSE rest

RECURSIVE validate_any(_, _)
RECURSIVE ValidateEach(_, _)

\* the loop `for t in toks: self.validate_any(t, context)`: the first raise
ValidateEach(toks, context) ==
    IF toks = <<>> THEN NoException
    ELSE OrElse(validate_any(Head(toks), context),
                ValidateEach(Tail(toks), context))

\* validate_any as it would be without the loop over a container's content
validate_any_flat(token, context) ==
    IF token.type \in {"FUNCTION", "(", "["}
    THEN NoException
    ELSE IF token.type \notin AnyTypes
    THEN ParseError(token, Adjective(token.type) \o " " \o token.type
                           \o " token in " \o context)
    ELSE NoException

validate_any(token, context) ==
    IF token.type \in {"FUNCTION", "(", "["}
    THEN ValidateEach(token.content, token.type)
    ELSE IF token.type \notin AnyTypes
    THEN ParseError(token, Adjective(token.type) \o " " \o token.type
                           \o " token in " \o context)
    ELSE NoException

RECURSIVE validate_block(_, _)
RECURSIVE ValidateBlockToken(_, _)

\* the body of validate_block's loop for one token
ValidateBlockToken(token, context) ==
    IF token.type = "{" THEN validate_block(token.content, context)
    ELSE IF token.type \notin {";", "ATKEYWORD"}
    THEN validate_any(token, context)
    ELSE NoException

validate_block(toks, context) ==
    IF toks = <<>> THEN NoException
    ELSE OrElse(ValidateBlockToken(Head(toks), context),
                validate_block(Tail(toks), context))

-----------------------------------------------------------------------------
(* parse_value, parse_declaration, parse_declaration_list.                  *)

\* `while content and content[-1].type == 'S': content.pop()`
RECURSIVE PopTrailingSpace(_)
PopTrailingSpace(content) ==
    IF content # <<>> /\ content[Len(content)].type = "S"
    THEN PopTrailingSpace(SubSeq(content, 1, Len(content) - 1))
    ELSE content

\* the validation of one token of a value
ValidateValueToken(token) ==
    IF token.type = "{" THEN validate_block(token.content, "property value")
    ELSE validate_any(token, "property value")

\* the loop of parse_value from token i on, with `content` as built so far
RECURSIVE ParseValueLoop(_, _, _)
\* the loop of parse_value as it would be if it skipped every white space
ParseValueLoopNoSpace(toks, i, content) ==
    IF i > Len(toks) THEN [exception |-> "none", content |-> content]
    ELSE IF toks[i].type # "S"
    THEN OrElse(ValidateValueToken(toks[i]),
                ParseValueLoop(toks, i + 1, Append(content, toks[i])))
    ELSE ParseValueLoop(toks, i + 1, content)

ParseValueLoop(toks, i, content) ==
    IF i > Len(toks) THEN [exception |-> "none", content |-> content]
    ELSE IF content # <<>> \/ toks[i].type # "S"
    THEN OrElse(ValidateValueToken(toks[i]),
                ParseValueLoop(toks, i + 1, Append(content, toks[i])))
    ELSE ParseValueLoop(toks, i + 1, content)

\* parse_value after its loop
ValueContent(loop) ==
    OrElse(loop, [exception |-> "none",
                  content |-> PopTrailingSpace(loop.content)])

parse_value(toks) == ValueContent(ParseValueLoop(toks, 1, <<>>))

\* the loop `for token in tokens` of parse_declaration from token i on:
\* the index of the ':' it breaks at, 0 when the loop runs to its end
RECURSIVE ScanColon(_, _)
ScanColon(toks, i) ==
    IF i > Len(toks) THEN [exception |-> "none", at |-> 0]
    ELSE IF toks[i].type = ":" THEN [exception |-> "none", at |-> i]
    ELSE IF toks[i].type # "S"
    THEN ParseError(toks[i], "expected ':', got " \o toks[i].type)
    ELSE ScanColon(toks, i + 1)

Declaration(name, value, line, column) ==
    [exception |-> "none", name |-> name, value |-> value,
     line |-> line, column |-> column]

\* the `else` of the for loop: `token` is the last token the loop bound,
\* and is unbound when the loop body never ran
ExpectedColon(toks) ==
    IF Len(toks) = 1 THEN UnboundLocalError
    ELSE ParseError(toks[Len(toks)], "expected ':'")

\* parse_declaration from `value = self.parse_value(tokens)` on; toks[at]
\* is the ':' token, the last one bound to `token`
DeclarationOf(toks, at, value) ==
    IF value.exception # "none" THEN value
    ELSE IF value.content = <<>>
    THEN ParseError(toks[at], "expected a property value")
    ELSE Declaration(Lower(toks[1].value),
                     ContainerToken("VALUES", value.content,
                         value.content[1].line, value.content[1].column),
                     toks[1].line, toks[1].column)

\* parse_declaration after the scan for ':'
AfterName(toks, colon) ==
    IF colon.exception # "none" THEN colon
    ELSE IF colon.at = 0 THEN ExpectedColon(toks)
    ELSE DeclarationOf(toks, colon.at,
                       parse_value(SubSeq(toks, colon.at + 1, Len(toks))))

\* parse_declaration as it would be without the test of the first token
parse_declaration_any_name(toks) ==
    IF toks = <<>> THEN StopIteration
    ELSE AfterName(toks, ScanColon(toks, 2))

parse_declaration(toks) ==
    IF toks = <<>> THEN StopIteration
    ELSE IF toks[1].type # "IDENT"
    THEN ParseError(toks[1], "expected a property name, got "
                             \o toks[1].type)
    ELSE AfterName(toks, ScanColon(toks, 2))

\* `if this_part: parts.append(this_part)`
Flush(parts, this_part) ==
    IF this_part # <<>> THEN Append(parts, this_part) ELSE parts

\* the split at ';' of parse_declaration_list from token i on
RECURSIVE SplitParts(_, _, _, _)
SplitParts(toks, i, parts, this_part) ==
    IF i > Len(toks) THEN Flush(parts, this_part)
    ELSE IF toks[i].type = ";"
    THEN SplitParts(toks, i + 1, Flush(parts, this_part), <<>>)
    ELSE IF this_part # <<>> \/ toks[i].type # "S"
    THEN SplitParts(toks, i + 1, parts, Append(this_part, toks[i]))
    ELSE SplitParts(toks, i + 1, parts, this_part)

\* the loop `for part in parts` from part i on, `d` being what
\* parse_declaration did for part i; only ParseError is caught
RECURSIVE ParseParts(_, _, _, _)
RECURSIVE AfterPart(_, _, _, _, _)
AfterPart(parts, i, decls, errs, d) ==
    IF d.exception = "none"
    THEN ParseParts(parts, i + 1, Append(decls, d), errs)
    ELSE IF IsParseError(d)
    THEN ParseParts(parts, i + 1, decls, Append(errs, d))
    ELSE d

ParseParts(parts, i, decls, errs) ==
    IF i > Len(parts)
    THEN [exception |-> "none", declarations |-> decls, errors |-> errs]
    ELSE AfterPart(parts, i, decls, errs, parse_declaration(parts[i]))

parse_declaration_list(toks) ==
    ParseParts(SplitParts(toks, 1, <<>>, <<>>), 1, <<>>, <<>>)

-----------------------------------------------------------------------------
(* read_at_rule, parse_ruleset, parse_at_rule.                              *)

AtRule(at_keyword, head, body, line, column) ==
    [at_keyword |-> at_keyword, head |-> head, body |-> body,
     line |-> line, column |-> column]

RuleSet(selector, decls, line, column) ==
    [at_keyword |-> "None", selector |-> selector, declarations |-> decls,
     line |-> line, column |-> column]

\* `token.type in '{;'` is a substring test on the string '{;'
InBraceSemicolon(type_) == type_ \in {"", "{", ";", "{;"}

\* a result with the number of tokens the iterator has yielded by then
Consumed(result, n) == result @@ [next |-> n]

\* read_at_rule at the '{' or ';' toks[i]; toks[p] is the at-keyword token
EndOfHead(toks, p, i, head) ==
    OrElse(ValidateEach(head, "at-rule head"),
           [exception |-> "none",
            rule |-> AtRule(Lower(toks[p].value), head,
                            IF toks[i].type = "{" THEN toks[i] ELSE None,
                            toks[p].line, toks[p].column)])

\* read_at_rule as it would be if it validated each head token as soon as
\* it is read, raising before the '{' or ';' is consumed
RECURSIVE ReadAtRuleEager(_, _, _, _)
ReadAtRuleEager(toks, p, i, head) ==
    IF i > Len(toks)
    THEN Consumed(ParseError(toks[i - 1], "incomplete at-rule"), Len(toks))
    ELSE IF InBraceSemicolon(toks[i].type)
    THEN Consumed(EndOfHead(toks, p, i, head), i)
    ELSE IF head # <<>> \/ toks[i].type # "S"
    THEN IF validate_any(toks[i], "at-rule head").exception # "none"
         THEN Consumed(validate_any(toks[i], "at-rule head"), i)
         ELSE ReadAtRuleEager(toks, p, i + 1, Append(head, toks[i]))
    ELSE ReadAtRuleEager(toks, p, i + 1, head)

\* the loop of read_at_rule as it would be if it kept the white space just
\* after the at-keyword
RECURSIVE ReadAtRuleKeepSpace(_, _, _, _)
ReadAtRuleKeepSpace(toks, p, i, head) ==
    IF i > Len(toks)
    THEN Consumed(ParseError(toks[i - 1], "incomplete at-rule"), Len(toks))
    ELSE IF InBraceSemicolon(toks[i].type)
    THEN Consumed(EndOfHead(toks, p, i, head), i)
    ELSE ReadAtRuleKeepSpace(toks, p, i + 1, Append(head, toks[i]))

\* The loop of read_at_rule from token i on; toks[p] is the at-keyword
\* token, which is also what `token` holds when the loop body never runs.
RECURSIVE ReadAtRuleLoop(_, _, _, _)
ReadAtRuleLoop(toks, p, i, head) ==
    IF i > Len(toks)
    THEN Consumed(ParseError(toks[i - 1], "incomplete at-rule"), Len(toks))
    ELSE IF InBraceSemicolon(toks[i].type)
    THEN Consumed(EndOfHead(toks, p, i, head), i)
    ELSE IF head # <<>> \/ toks[i].type # "S"
    THEN ReadAtRuleLoop(toks, p, i + 1, Append(head, toks[i]))
    ELSE ReadAtRuleLoop(toks, p, i + 1, head)

read_at_rule(toks, p) == ReadAtRuleLoop(toks, p, p + 1, <<>>)

\* parse_ruleset from `declarations, errors = parse_declaration_list(...)`
RuleSetOf(selector, list, line, column) ==
    OrElse(list, [exception |-> "none", errors |-> list.errors,
                  rule |-> RuleSet(selector, list.declarations,
                                   line, column)])

\* `start = selector_parts[0] if selector_parts else token`
SelectorStart(selector_parts, token) ==
    IF selector_parts # <<>> THEN selector_parts[1] ELSE token

\* parse_ruleset at the '{' toks[i]; toks[p] is first_token
AtBlock(toks, p, i, selector_parts) ==
    OrElse(ValidateEach(selector_parts, "selector"),
           RuleSetOf(ContainerToken("SELECTOR", selector_parts,
                         SelectorStart(selector_parts, toks[i]).line,
                         SelectorStart(selector_parts, toks[i]).column),
                     parse_declaration_list(toks[i].content),
                     toks[p].line, toks[p].column))

\* The loop of parse_ruleset over chain([first_token], tokens) from token
\* i on; toks[p] is first_token.
RECURSIVE ParseRulesetLoop(_, _, _, _)
ParseRulesetLoop(toks, p, i, selector_parts) ==
    IF i > Len(toks)
    THEN Consumed(ParseError(toks[i - 1],
                      "no declaration block found for ruleset"), Len(toks))
    ELSE IF toks[i].type = "{"
    THEN Consumed(AtBlock(toks, p, i, selector_parts), i)
    ELSE ParseRulesetLoop(toks, p, i + 1, Append(selector_parts, toks[i]))

parse_ruleset(toks, p) == ParseRulesetLoop(toks, p, p, <<>>)

\* truth value of `rule.body`: None is false, a ContainerToken is true
Truthy(body) == body # None

Handled(handled, stylesheet_rules, errs) ==
    [exception |-> "none", handled |-> handled, rules |-> stylesheet_rules,
     errors |-> errs]

\* parse_at_rule as it would be without the test of the rule's position
parse_at_rule_anywhere(rule, stylesheet_rules, errs) ==
    IF rule.at_keyword = "@charset"
    THEN IF ~(/\ Len(rule.head) = 1
              /\ rule.head[1].type = "STRING"
              /\ rule.head[1].as_css[1] = "\""
              /\ ~Truthy(rule.body))
         THEN ParseError(rule, "invalid @charset rule")
         ELSE Handled(TRUE, stylesheet_rules, errs)
    ELSE Handled(FALSE, stylesheet_rules, errs)

\* CoreParser.parse_at_rule: only @charset
parse_at_rule(rule, stylesheet_rules, errs) ==
    IF rule.at_keyword = "@charset"
    THEN IF <<rule.line, rule.column>> = <<1, 1>>
         THEN IF ~(/\ Len(rule.head) = 1
                   /\ rule.head[1].type = "STRING"
                   /\ rule.head[1].as_css[1] = "\""
                   /\ ~Truthy(rule.body))
              THEN ParseError(rule, "invalid @charset rule")
              ELSE Handled(TRUE, stylesheet_rules, errs)
         ELSE ParseError(rule,
                  "@charset rule not at the beginning of the stylesheet")
    ELSE Handled(FALSE, stylesheet_rules, errs)

\* A parse_at_rule of a subclass, as its contract allows: it appends the
\* rule and returns True ("claim"), raises a ParseError ("raise"), or
\* returns False; these ones know the at-rule @foo.
DerivedBehaviours == {"claim", "raise", "pass"}

derived_parse_at_rule(behaviour, rule, stylesheet_rules, errs) ==
    IF rule.at_keyword = "@foo" /\ behaviour = "claim"
    THEN Handled(TRUE, Append(stylesheet_rules, rule), errs)
    ELSE IF rule.at_keyword = "@foo" /\ behaviour = "raise"
    THEN ParseError(rule, "invalid @foo rule")
    ELSE Handled(FALSE, stylesheet_rules, errs)

\* parse_at_rule_methods: the methods of type(self).mro(), most derived
\* class first, CoreParser's own last
parse_at_rule_methods(subclasses) == subclasses \o <<"CoreParser">>

\* `handled = parse_at_rule(self, rule, rules, errors)`
CallHandler(method, rule, stylesheet_rules, errs) ==
    IF method = "CoreParser"
    THEN parse_at_rule(rule, stylesheet_rules, errs)
    ELSE derived_parse_at_rule(method, rule, stylesheet_rules, errs)

\* `for parse_at_rule in parse_at_rule_methods: ... else: ...` from method
\* i on, `invoked` listing the methods called so far and `call` being what
\* method i did
RECURSIVE Dispatch(_, _, _, _, _, _)
RECURSIVE AfterHandler(_, _, _, _, _)
\* the loop as it would be without its `break`: a method that handled the
\* rule does not end the chain
AfterHandlerNoBreak(methods, i, rule, invoked, call) ==
    IF call.exception # "none" THEN call @@ [invoked |-> invoked]
    ELSE Dispatch(methods, i + 1, rule, call.rules, call.errors, invoked)

AfterHandler(methods, i, rule, invoked, call) ==
    IF call.exception # "none" THEN call @@ [invoked |-> invoked]
    ELSE IF call.handled
    THEN [exception |-> "none", rules |-> call.rules, errors |-> call.errors,
          invoked |-> invoked, handled |-> TRUE]
    ELSE Dispatch(methods, i + 1, rule, call.rules, call.errors, invoked)

Dispatch(methods, i, rule, stylesheet_rules, errs, invoked) ==
    IF i > Len(methods)
    THEN [exception |-> "none", rules |-> stylesheet_rules,
          errors |-> Append(errs, ParseError(rule,
                         "unknown at-rule: " \o rule.at_keyword)),
          invoked |-> invoked, handled |-> FALSE]
    ELSE AfterHandler(methods, i, rule, Append(invoked, i),
             CallHandler(methods[i], rule, stylesheet_rules, errs))

-----------------------------------------------------------------------------
(* Token streams the tokenizer can produce, before positions are given.     *)

S == Token("S", " ", <<" ">>)
Ident(v) == Token("IDENT", v, <<v>>)
AtKeyword(v) == Token("ATKEYWORD", v, <<v>>)
Number == Token("NUMBER", "1", <<"1">>)
Colon == Token(":", ":", <<":">>)
Semicolon == Token(";", ";", <<";">>)
DoubleQuoted == Token("STRING", "x", <<"\"", "x", "\"">>)
SingleQuoted == Token("STRING", "x", <<"'", "x", "'">>)
Unmatched(type_) == Token(type_, type_, <<type_>>)
Group(type_, content) == ContainerToken(type_, content, 1, 0)

\* sequences over `universe` of length at most n
SeqsUpTo(universe, n) == UNION {[1..k -> universe] : k \in 0..n}

StylesheetTokens ==
    {S, Token("CDO", "<!--", <<"<", "!", "-", "-">>),
     AtKeyword("@charset"), AtKeyword("@Charset"), AtKeyword("@foo"),
     DoubleQuoted, SingleQuoted, Semicolon, Ident("a"), Unmatched(")"),
     Group("{", <<>>), Group("{", <<Ident("b")>>),
     Group("{", <<Ident("A"), Colon, Number>>)}

-----------------------------------------------------------------------------
(* parse_stylesheet: parse_rules, one action per iteration of its loop.     *)

Start(entry_, toks, subclasses) ==
    /\ entry = entry_
    /\ tokens = toks
    /\ derived = subclasses
    /\ pos = 0
    /\ rules = <<>>
    /\ errors = <<>>
    /\ declarations = <<>>
    /\ pc = "run"
    /\ raised = NoException
    /\ attempts = <<>>

Init ==
    \E shape \in SeqsUpTo(StylesheetTokens, MaxTokens) :
        Start("parse_stylesheet", tokenize_grouped(shape), <<>>)

Running == entry = "parse_stylesheet" /\ pc = "run"

\* One iteration of the loop, for the history: the tokens first..last it
\* consumed, how it ended, the parse_at_rule methods it called, and the
\* lengths of `rules` and `errors` after it.
Attempt(kind, first, last, outcome, invoked, nrules, nerrors) ==
    [kind |-> kind, first |-> first, last |-> last, outcome |-> outcome,
     invoked |-> invoked, nrules |-> nrules, nerrors |-> nerrors]

\* a token of type S, CDO or CDC at top level
SkipToken ==
    /\ Running
    /\ pos < Len(tokens)
    /\ tokens[pos + 1].type \in {"S", "CDO", "CDC"}
    /\ pos' = pos + 1
    /\ attempts' = Append(attempts,
                       Attempt("skip", pos + 1, pos + 1, "skipped", <<>>,
                               Len(rules), Len(errors)))
    /\ UNCHANGED <<entry, tokens, rules, errors, declarations, derived, pc,
                   raised>>

\* the at-rule was read: the parse_at_rule methods, `d` being the outcome
Dispatched(first, last, d) ==
    IF d.exception # "none"
    THEN /\ errors' = Append(errors, ExceptionOf(d))
         /\ rules' = rules
         /\ attempts' = Append(attempts,
                Attempt("at-rule", first, last, "raised", d.invoked,
                        Len(rules), Len(errors) + 1))
    ELSE /\ errors' = d.errors
         /\ rules' = d.rules
         /\ attempts' = Append(attempts,
                Attempt("at-rule", first, last,
                        IF d.handled THEN "handled" ELSE "unknown",
                        d.invoked, Len(d.rules), Len(d.errors)))

AtRuleRead(read) ==
    /\ pos' = read.next
    /\ IF read.exception # "none"
       THEN /\ errors' = Append(errors, ExceptionOf(read))
            /\ rules' = rules
            /\ attempts' = Append(attempts,
                   Attempt("at-rule", pos + 1, read.next, "dropped", <<>>,
                           Len(rules), Len(errors) + 1))
       ELSE Dispatched(pos + 1, read.next,
                Dispatch(parse_at_rule_methods(derived), 1, read.rule, rules,
                         errors, <<>>))

\* an ATKEYWORD token: read_at_rule, then the parse_at_rule methods
AtRuleStep ==
    /\ Running
    /\ pos < Len(tokens)
    /\ tokens[pos + 1].type = "ATKEYWORD"
    /\ AtRuleRead(read_at_rule(tokens, pos + 1))
    /\ UNCHANGED <<entry, tokens, declarations, derived, pc, raised>>

RulesetParsed(parsed) ==
    /\ pos' = parsed.next
    /\ IF parsed.exception = "none"
       THEN /\ rules' = Append(rules, parsed.rule)
            /\ errors' = errors \o parsed.errors
            /\ attempts' = Append(attempts,
                   Attempt("ruleset", pos + 1, parsed.next, "appended", <<>>,
                           Len(rules) + 1,
                           Len(errors) + Len(parsed.errors)))
            /\ UNCHANGED <<pc, raised>>
       ELSE IF IsParseError(parsed)
       THEN /\ errors' = Append(errors, ExceptionOf(parsed))
            /\ rules' = rules
            /\ attempts' = Append(attempts,
                   Attempt("ruleset", pos + 1, parsed.next, "dropped", <<>>,
                           Len(rules), Len(errors) + 1))
            /\ UNCHANGED <<pc, raised>>
       ELSE /\ pc' = "raised"
            /\ raised' = ExceptionOf(parsed)
            /\ attempts' = Append(attempts,
                   Attempt("ruleset", pos + 1, parsed.next, "escaped", <<>>,
                           Len(rules), Len(errors)))
            /\ UNCHANGED <<rules, errors>>

\* any other token: parse_ruleset
RulesetStep ==
    /\ Running
    /\ pos < Len(tokens)
    /\ tokens[pos + 1].type \notin {"S", "CDO", "CDC", "ATKEYWORD"}
    /\ RulesetParsed(parse_ruleset(tokens, pos + 1))
    /\ UNCHANGED <<entry, tokens, declarations, derived>>

\* the iterator is exhausted: `return rules, errors`
Return ==
    /\ Running
    /\ pos = Len(tokens)
    /\ pc' = "returned"
    /\ UNCHANGED <<entry, tokens, pos, rules, errors, declarations, derived,
                   raised, attempts>>

Next == SkipToken \/ AtRuleStep \/ RulesetStep \/ Return

Spec == Init /\ [][Next]_vars

-----------------------------------------------------------------------------
(* parse_stylesheet of a subclass of CoreParser: the chain of               *)
(* parse_at_rule methods.                                                   *)

ChainTokens ==
    {S, AtKeyword("@Foo"), AtKeyword("@charset"), AtKeyword("@bar"),
     DoubleQuoted, Semicolon, Unmatched(")")}

InitChain ==
    \E shape \in SeqsUpTo(ChainTokens, MaxTokens) :
        \E subclasses \in SeqsUpTo(DerivedBehaviours, MaxDerived) :
            Start("parse_stylesheet", tokenize_grouped(shape), subclasses)

SpecChain == InitChain /\ [][Next]_vars

-----------------------------------------------------------------------------
(* parse_style_attr: parse_declaration_list on the whole stream.            *)

AttrTokens ==
    {S, Ident("a"), Ident("A"), Colon, Semicolon, Number,
     Group("{", <<Semicolon>>), Group("(", <<Semicolon>>)}

InitAttr ==
    \E shape \in SeqsUpTo(AttrTokens, MaxSegment) :
        Start("parse_style_attr", tokenize_grouped(shape), <<>>)

\* what the caller of parse_style_attr gets
AttrParsed(list) ==
    IF list.exception = "none"
    THEN /\ declarations' = list.declarations
         /\ errors' = list.errors
         /\ pc' = "returned"
         /\ raised' = raised
    ELSE /\ pc' = "raised"
         /\ raised' = ExceptionOf(list)
         /\ UNCHANGED <<declarations, errors>>

parse_style_attr ==
    /\ entry = "parse_style_attr"
    /\ pc = "run"
    /\ AttrParsed(parse_declaration_list(tokens))
    /\ pos' = Len(tokens)
    /\ UNCHANGED <<entry, tokens, rules, derived, attempts>>

NextAttr == parse_style_attr

SpecAttr == InitAttr /\ [][NextAttr]_vars

-----------------------------------------------------------------------------
(* parse_declaration called on its own (the API for subclasses).            *)

DeclarationTokens ==
    {S, Ident("a"), Ident("A"), Colon, Number, AtKeyword("@foo"),
     Unmatched("}"), Group("{", <<Semicolon>>)}

InitDeclaration ==
    \E shape \in SeqsUpTo(DeclarationTokens, MaxSegment) :
        Start("parse_declaration", tokenize_grouped(shape), <<>>)

\* what the caller of parse_declaration gets
DeclarationParsed(d) ==
    IF d.exception = "none"
    THEN /\ declarations' = <<d>>
         /\ pc' = "returned"
         /\ raised' = raised
    ELSE /\ pc' = "raised"
         /\ raised' = d
         /\ declarations' = declarations

CallParseDeclaration ==
    /\ entry = "parse_declaration"
    /\ pc = "run"
    /\ DeclarationParsed(parse_declaration(tokens))
    /\ pos' = Len(tokens)
    /\ UNCHANGED <<entry, tokens, rules, errors, derived, attempts>>

NextDeclaration == CallParseDeclaration

SpecDeclaration == InitDeclaration /\ [][NextDeclaration]_vars

-----------------------------------------------------------------------------
(* validate_any and validate_block called on their own.                     *)

LeafTokens == {Ident("a"), Semicolon, AtKeyword("@foo"), Unmatched("}")}

ContainerTypes == {"FUNCTION", "(", "[", "{"}

\* the token sequences of at most n tokens, nested ones included
RECURSIVE Forests(_)
Forests(n) ==
    IF n = 0 THEN {<<>>}
    ELSE {<<>>} \cup UNION {
             {<<t>> \o rest :
                 t \in LeafTokens \cup
                       {Group(c, f) : c \in ContainerTypes,
                                      f \in Forests(k - 1)},
                 rest \in Forests(n - k)} : k \in 1..n}

InitValidate ==
    \E shape \in Forests(MaxSize) :
        \/ Start("validate_block", tokenize_grouped(shape), <<>>)
        \/ /\ Len(shape) = 1
           /\ Start("validate_any", tokenize_grouped(shape), <<>>)

\* the validators return nothing or raise
Validated(e) ==
    /\ pc' = IF e.exception = "none" THEN "returned" ELSE "raised"
    /\ raised' = e

CallValidateAny ==
    /\ entry = "validate_any"
    /\ pc = "run"
    /\ Validated(validate_any(tokens[1], "property value"))
    /\ pos' = Len(tokens)
    /\ UNCHANGED <<entry, tokens, rules, errors, declarations, derived,
                   attempts>>

CallValidateBlock ==
    /\ entry = "validate_block"
    /\ pc = "run"
    /\ Validated(validate_block(tokens, "property value"))
    /\ pos' = Len(tokens)
    /\ UNCHANGED <<entry, tokens, rules, errors, declarations, derived,
                   attempts>>

NextValidate == CallValidateAny \/ CallValidateBlock

SpecValidate == InitValidate /\ [][NextValidate]_vars

-----------------------------------------------------------------------------
(* read_at_rule called on its own (the API for subclasses): tokens[1] is    *)
(* the at-keyword token, the rest is the iterator it is given.              *)

ReadTokens ==
    {S, Ident("a"), AtKeyword("@foo"), Semicolon, Unmatched(")"),
     Group("{", <<Unmatched("}")>>), Group("(", <<Semicolon>>),
     Group("(", <<Ident("a")>>)}

InitReadAtRule ==
    \E keyword \in {AtKeyword("@foo"), AtKeyword("@Foo")},
       shape \in SeqsUpTo(ReadTokens, MaxTokens) :
        Start("read_at_rule", tokenize_grouped(<<keyword>> \o shape), <<>>)

\* what the caller of read_at_rule gets, and where its iterator then is
ReadReturned(read) ==
    /\ pos' = read.next
    /\ IF read.exception = "none"
       THEN /\ rules' = <<read.rule>>
            /\ pc' = "returned"
            /\ raised' = raised
       ELSE /\ pc' = "raised"
            /\ raised' = ExceptionOf(read)
            /\ rules' = rules

CallReadAtRule ==
    /\ entry = "read_at_rule"
    /\ pc = "run"
    /\ ReadReturned(read_at_rule(tokens, 1))
    /\ UNCHANGED <<entry, tokens, errors, declarations, derived, attempts>>

NextReadAtRule == CallReadAtRule

SpecReadAtRule == InitReadAtRule /\ [][NextReadAtRule]_vars

-----------------------------------------------------------------------------
(* Properties.                                                              *)

Range(seq) == {seq[i] : i \in DOMAIN seq}

\* the indices of the top-level ';' tokens of a token list
Separators(toks) == {i \in DOMAIN toks : toks[i].type = ";"}

\* The segments between top-level ';' that hold a token other than white
\* space, each named by the index before its first token.
NonBlankSegments(toks) ==
    {a \in {0} \cup Separators(toks) :
        \E j \in (a + 1)..Len(toks) :
            /\ toks[j].type \notin {"S", ";"}
            /\ \A m \in (a + 1)..j : toks[m].type # ";"}

\* C1: parse_rules (behind parse_stylesheet) and parse_declaration_list
\* (behind parse_style_attr) end by returning their result
\* for every token stream: no exception of any kind escapes the call.
C1_NoExceptionEscapes ==
    entry \in {"parse_stylesheet", "parse_style_attr"} => pc # "raised"

\* C2: parse_declaration_list returns, for every token sequence, as many
\* declarations and errors together as there are segments between
\* top-level ';' that hold a token other than white space, the
\* declarations in segment order.
C2_OneResultPerSegment ==
    (entry = "parse_style_attr" /\ pc # "run") =>
        /\ pc = "returned"
        /\ Len(declarations) + Len(errors)
               = Cardinality(NonBlankSegments(tokens))
        /\ \A i, j \in DOMAIN declarations :
               i < j => declarations[i].column < declarations[j].column

\* the least element of a set of indices, 0 if there is none
FirstIndex(indices) ==
    IF indices = {} THEN 0
    ELSE CHOOSE j \in indices : \A m \in indices : j <= m

\* the iteration before iteration k of parse_rules' loop
Before(k) ==
    IF k = 1 THEN [last |-> 0, nrules |-> 0, nerrors |-> 0]
    ELSE attempts[k - 1]

\* the first token after the at-keyword that can be part of the head, and
\* the first token of a ruleset
FirstOfRule(a) == IF a.kind = "at-rule" THEN a.first + 1 ELSE a.first

\* The token that ends the rule of iteration a: the first top-level '{' or
\* ';' after the at-keyword of an at-rule, the first top-level '{' of a
\* ruleset; 0 if the stream ends before.
TerminatorOf(a) ==
    FirstIndex({j \in FirstOfRule(a)..Len(tokens) :
                   tokens[j].type \in (IF a.kind = "at-rule" THEN {"{", ";"}
                                       ELSE {"{"})})

\* the rule has no terminator, or a token of its head or selector is not
\* in the 'any' production
FailsToRead(a) ==
    \/ TerminatorOf(a) = 0
    \/ \E j \in FirstOfRule(a)..(TerminatorOf(a) - 1) :
           validate_any(tokens[j], "").exception # "none"

\* a ruleset with a valid selector whose block holds valid declarations only
ValidRuleset(a) ==
    /\ a.kind = "ruleset"
    /\ ~FailsToRead(a)
    /\ parse_declaration_list(tokens[TerminatorOf(a)].content).exception
           = "none"
    /\ parse_declaration_list(tokens[TerminatorOf(a)].content).errors = <<>>

\* C3: in parse_rules every top-level token is consumed by exactly one
\* iteration (a skipped S/CDO/CDC token, or one rule up to and including its
\* terminating '{...}' or ';'); a rule whose head or selector holds an
\* invalid token, or that has no terminator, appends nothing to rules and
\* exactly one error, and scanning resumes right after its terminator; a
\* valid ruleset is appended whatever came before it; rules are in source
\* order.
C3_FailedRuleDroppedWhole ==
    entry = "parse_stylesheet" =>
        /\ pos = IF attempts = <<>> THEN 0 ELSE attempts[Len(attempts)].last
        /\ \A i, j \in DOMAIN rules : i < j => rules[i].column < rules[j].column
        /\ \A k \in DOMAIN attempts :
               LET a == attempts[k]
                   t == TerminatorOf(a)
               IN  /\ a.first = Before(k).last + 1
                   /\ a.first <= a.last
                   /\ a.last <= Len(tokens)
                   /\ (a.kind = "skip")
                          = (tokens[a.first].type \in {"S", "CDO", "CDC"})
                   /\ (a.kind = "at-rule")
                          = (tokens[a.first].type = "ATKEYWORD")
                   /\ a.kind = "skip" =>
                          /\ a.last = a.first
                          /\ a.nrules = Before(k).nrules
                          /\ a.nerrors = Before(k).nerrors
                   /\ a.kind # "skip" =>
                          a.last = IF t = 0 THEN Len(tokens) ELSE t
                   /\ (a.kind # "skip" /\ FailsToRead(a)) =>
                          /\ a.outcome = "dropped"
                          /\ a.nrules = Before(k).nrules
                          /\ a.nerrors = Before(k).nerrors + 1
                   /\ ValidRuleset(a) =>
                          /\ a.outcome = "appended"
                          /\ a.nrules = Before(k).nrules + 1
                          /\ a.nerrors = Before(k).nerrors
                          /\ rules[a.nrules].at_keyword = "None"
                          /\ rules[a.nrules].column = tokens[a.first].column

\* an at-rule with an invalid head token was dropped up to its ';', and the
\* valid ruleset right after it was appended
C3_Witness ==
    /\ entry = "parse_stylesheet"
    /\ pc = "returned"
    /\ \E k \in DOMAIN attempts :
           /\ attempts[k].kind = "at-rule"
           /\ attempts[k].outcome = "dropped"
           /\ attempts[k].last > attempts[k].first + 1
           /\ tokens[attempts[k].last].type = ";"
           /\ k + 1 \in DOMAIN attempts
           /\ ValidRuleset(attempts[k + 1])
           /\ Len(rules) = 1
           /\ Len(errors) = 1

\* the parse_at_rule methods of the parser's class, most derived first
MethodAt(i) == IF i <= Len(derived) THEN derived[i] ELSE "CoreParser"

\* what method i does with the at-rule read at token `first`
AnswerOf(i, first) ==
    CallHandler(MethodAt(i), read_at_rule(tokens, first).rule, <<>>, <<>>)

\* method i ends the chain: it raises, or it returns True
Stops(i, first) ==
    \/ AnswerOf(i, first).exception # "none"
    \/ AnswerOf(i, first).handled

\* the first method of the chain that raises or returns True, 0 if none
FirstStop(first) ==
    FirstIndex({i \in 1..(Len(derived) + 1) : Stops(i, first)})

\* C4: for every at-rule that read_at_rule returned, the parse_at_rule
\* methods are called in the fixed order, most derived first, up to and
\* including the first that returns True or raises and no further; a
\* raised ParseError is appended to errors once; the error "unknown
\* at-rule" is appended exactly when every method returned False.
C4_FirstHandlerStopsChain ==
    entry = "parse_stylesheet" =>
        \A k \in DOMAIN attempts :
            LET a == attempts[k]
                stop == FirstStop(a.first)
                rule == read_at_rule(tokens, a.first).rule
            IN  (a.kind = "at-rule" /\ a.outcome # "dropped") =>
                    /\ a.invoked = [i \in 1..(IF stop = 0
                                              THEN Len(derived) + 1
                                              ELSE stop) |-> i]
                    /\ (stop = 0) <=>
                           /\ a.nerrors = Before(k).nerrors + 1
                           /\ errors[a.nerrors].reason
                                  = "unknown at-rule: " \o rule.at_keyword
                    /\ a.outcome = "unknown" <=> stop = 0
                    /\ stop = 0 => a.nrules = Before(k).nrules
                    /\ (stop # 0 /\ AnswerOf(stop, a.first).exception # "none")
                           => /\ a.outcome = "raised"
                              /\ a.nerrors = Before(k).nerrors + 1
                              /\ errors[a.nerrors] = AnswerOf(stop, a.first)
                              /\ a.nrules = Before(k).nrules
                    /\ (stop # 0 /\ AnswerOf(stop, a.first).exception = "none")
                           => /\ a.outcome = "handled"
                              /\ a.nerrors = Before(k).nerrors
                              /\ a.nrules = Before(k).nrules
                                     + Len(AnswerOf(stop, a.first).rules)

\* @foo was handled by the most derived class, and the method of the next
\* class, which would have raised, was not called
C4_Witness ==
    /\ entry = "parse_stylesheet"
    /\ pc = "returned"
    /\ Len(derived) = 2
    /\ derived[1] = "claim"
    /\ derived[2] = "raise"
    /\ \E k \in DOMAIN attempts :
           /\ attempts[k].outcome = "handled"
           /\ attempts[k].invoked = <<1>>
           /\ rules # <<>>
           /\ errors = <<>>

\* the first token of the head of the at-rule of iteration a: white space
\* right after the at-keyword is not part of the head; 0 if the head is empty
HeadStart(a) ==
    FirstIndex({j \in (a.first + 1)..(TerminatorOf(a) - 1) :
                   tokens[j].type # "S"})

\* '@charset "<string>";' at 1:1: the head is one double-quoted STRING
\* token and nothing else, and there is no body
WellFormedCharset(a) ==
    /\ tokens[a.first].line = 1
    /\ tokens[a.first].column = 1
    /\ TerminatorOf(a) # 0
    /\ tokens[TerminatorOf(a)].type = ";"
    /\ HeadStart(a) # 0
    /\ HeadStart(a) = TerminatorOf(a) - 1
    /\ tokens[HeadStart(a)].type = "STRING"
    /\ tokens[HeadStart(a)].as_css[1] = "\""

\* C5: CoreParser.parse_at_rule returns False for every at-keyword that is
\* not '@charset' once lower-cased; for '@charset' every deviation from
\* 'at 1:1, head of exactly one double-quoted STRING token, no body' is a
\* ParseError: exactly one error is recorded, no rule is added, and the
\* rule is not reported as an unknown at-rule.
C5_CharsetDeviationsRaise ==
    (entry = "parse_stylesheet" /\ derived = <<>>) =>
        \A k \in DOMAIN attempts :
            LET a == attempts[k]
                at_keyword == Lower(tokens[a.first].value)
            IN  a.kind = "at-rule" =>
                    /\ (at_keyword # "@charset" /\ ~FailsToRead(a)) =>
                           /\ a.outcome = "unknown"
                           /\ a.invoked = <<1>>
                           /\ ~parse_at_rule(read_at_rule(tokens, a.first).rule,
                                             <<>>, <<>>).handled
                    /\ (at_keyword = "@charset" /\ ~WellFormedCharset(a)) =>
                           /\ a.nerrors = Before(k).nerrors + 1
                           /\ a.nrules = Before(k).nrules
                           /\ errors[a.nerrors].exception = "ParseError"
                           /\ errors[a.nerrors].reason
                                  # "unknown at-rule: @charset"
                           /\ ~FailsToRead(a) =>
                                  /\ a.outcome = "raised"
                                  /\ errors[a.nerrors].reason =
                                         IF a.first = 1
                                         THEN "invalid @charset rule"
                                         ELSE "@charset rule not at the beginning of the stylesheet"
                    /\ (at_keyword = "@charset" /\ WellFormedCharset(a)) =>
                           /\ a.outcome = "handled"
                           /\ a.nerrors = Before(k).nerrors

\* '@Charset "x" ;' at 1:1: the white space after the string makes the head
\* two tokens long, and the rule was refused
C5_Witness ==
    /\ entry = "parse_stylesheet"
    /\ derived = <<>>
    /\ pc = "returned"
    /\ Len(tokens) = 4
    /\ tokens[1].value = "@Charset"
    /\ tokens[2].type = "STRING"
    /\ tokens[2].as_css[1] = "\""
    /\ tokens[3].type = "S"
    /\ tokens[4].type = ";"
    /\ rules = <<>>
    /\ Len(errors) = 1
    /\ errors[1].reason = "invalid @charset rule"

\* the token stream is '@charset "<string>";', with or without white space
\* after the at-keyword
CharsetStream ==
    /\ Len(tokens) \in {3, 4}
    /\ tokens[1].type = "ATKEYWORD"
    /\ tokens[1].value = "@charset"
    /\ Len(tokens) = 4 => tokens[2].type = "S"
    /\ tokens[Len(tokens) - 1].type = "STRING"
    /\ tokens[Len(tokens) - 1].as_css[1] = "\""
    /\ tokens[Len(tokens)].type = ";"

\* C6: for the stream '@charset "<string>";' with the at-keyword at 1:1,
\* parse_rules returns one AtRule, the @charset rule, and no error.
C6_CharsetRuleYielded ==
    (entry = "parse_stylesheet" /\ derived = <<>> /\ pc = "returned"
        /\ CharsetStream) =>
            /\ Len(rules) = 1
            /\ rules[1].at_keyword = "@charset"
            /\ errors = <<>>

\* the first token after the property name that is not white space, 0 if
\* there is none
AfterNameToken == FirstIndex({j \in 2..Len(tokens) : tokens[j].type # "S"})

\* C7: parse_declaration, given a segment that starts with an identifier
\* and holds no ':', raises a ParseError: "expected ':'" when only white
\* space (or nothing) follows the name, "expected ':', got <type>" naming
\* the first other token otherwise.
C7_MissingColonIsParseError ==
    (/\ entry = "parse_declaration"
     /\ pc # "run"
     /\ tokens # <<>>
     /\ tokens[1].type = "IDENT"
     /\ \A j \in DOMAIN tokens : tokens[j].type # ":") =>
        /\ pc = "raised"
        /\ raised.exception = "ParseError"
        /\ raised.reason = IF AfterNameToken = 0 THEN "expected ':'"
                           ELSE "expected ':', got "
                                    \o tokens[AfterNameToken].type

\* C8 as stated: parse_declaration raises a ParseError "expected a
\* property name" whenever its input is empty or its first token is not an
\* identifier, and nothing else.
C8_EmptyOrNoNameIsParseError ==
    (/\ entry = "parse_declaration"
     /\ pc # "run"
     /\ (tokens = <<>> \/ tokens[1].type # "IDENT")) =>
        /\ pc = "raised"
        /\ raised.exception = "ParseError"
        /\ raised.reason = IF tokens = <<>> THEN "expected a property name"
                           ELSE "expected a property name, got "
                                    \o tokens[1].type

\* C8, amended: parse_declaration raises the ParseError "expected a
\* property name, got <type>", on its first token, whenever its input is
\* not empty and the first token is not an identifier; on an empty input,
\* which its contract excludes, it raises StopIteration.
C8_NoNameIsParseError ==
    (entry = "parse_declaration" /\ pc # "run") =>
        /\ (tokens # <<>> /\ tokens[1].type # "IDENT") =>
               /\ pc = "raised"
               /\ raised = ParseError(tokens[1],
                               "expected a property name, got "
                                   \o tokens[1].type)
        /\ tokens = <<>> => (pc = "raised" /\ raised = StopIteration)

\* a segment that starts with a number was refused for its name
C8_Witness ==
    /\ entry = "parse_declaration"
    /\ pc = "raised"
    /\ Len(tokens) > 2
    /\ tokens[1].type = "NUMBER"
    /\ tokens[2].type = ":"
    /\ raised.exception = "ParseError"
    /\ raised.reason = "expected a property name, got NUMBER"
    /\ raised.column = 1

\* The shape IDENT S* ':' V of a stream that is one segment, with or
\* without its closing ';'.
LastIndex(indices) ==
    IF indices = {} THEN 0
    ELSE CHOOSE i \in indices : \A j \in indices : j <= i

ColonAt == FirstIndex({i \in DOMAIN tokens : tokens[i].type = ":"})

ValueEnd ==
    IF tokens # <<>> /\ tokens[Len(tokens)].type = ";"
    THEN Len(tokens) - 1 ELSE Len(tokens)

\* the indices of V, and those of its tokens that are not white space
ValueIndices == (ColonAt + 1)..ValueEnd

ValueInk == {i \in ValueIndices : tokens[i].type # "S"}

ValidSegment ==
    /\ tokens # <<>>
    /\ tokens[1].type = "IDENT"
    /\ ColonAt # 0
    /\ \A i \in 2..(ColonAt - 1) : tokens[i].type = "S"
    /\ \A i \in ValueIndices :
           ValidateValueToken(tokens[i]).exception = "none"
    /\ ValueInk # {}

\* toks[i] stands where a property name is expected: it is the first token
\* of its segment that is not white space
IsName(toks, i) ==
    LET before == LastIndex({j \in 1..(i - 1) : toks[j].type # "S"})
    IN  before = 0 \/ toks[before].type = ";"

\* the stream with the letter case of every property name changed
OtherCase(toks) ==
    [i \in DOMAIN toks |->
        IF toks[i].type # "IDENT" \/ ~IsName(toks, i) THEN toks[i]
        ELSE IF toks[i].value = "a"
        THEN [toks[i] EXCEPT !.value = "A", !.as_css = <<"A">>]
        ELSE IF toks[i].value = "A"
        THEN [toks[i] EXCEPT !.value = "a", !.as_css = <<"a">>]
        ELSE toks[i]]

SameAcceptance(x, y) ==
    /\ x.exception = y.exception
    /\ x.exception = "none" =>
           /\ x.errors = y.errors
           /\ x.declarations = y.declarations

\* C9: for a segment IDENT S* ':' V whose V holds only valid value tokens
\* and at least one token that is not white space, parse_declaration_list
\* yields exactly one Declaration and no error; its name is the identifier
\* in lower case and its value is V without its leading and trailing white
\* space, every token in between kept in order.  So the value of any
\* Declaration produced is not empty and neither starts nor ends with
\* white space, and the letter case of property names changes nothing of
\* what is accepted.
C9_ValidDeclarationRoundTrip ==
    (entry = "parse_style_attr" /\ pc # "run") =>
        /\ ValidSegment =>
               /\ pc = "returned"
               /\ errors = <<>>
               /\ Len(declarations) = 1
               /\ declarations[1].name = "a"
               /\ declarations[1].value.content =
                      SubSeq(tokens, FirstIndex(ValueInk),
                             LastIndex(ValueInk))
        /\ pc = "returned" =>
               \A i \in DOMAIN declarations :
                   LET content == declarations[i].value.content
                   IN  /\ content # <<>>
                       /\ content[1].type # "S"
                       /\ content[Len(content)].type # "S"
        /\ SameAcceptance(parse_declaration_list(tokens),
                          parse_declaration_list(OtherCase(tokens)))

\* `A:1 1`, with white space inside the value, gave one declaration `a`
\* that keeps the white space
C9_Witness ==
    /\ entry = "parse_style_attr"
    /\ pc = "returned"
    /\ ValidSegment
    /\ tokens[1].value = "A"
    /\ Len(declarations) = 1
    /\ declarations[1].name = "a"
    /\ Len(declarations[1].value.content) = 3
    /\ declarations[1].value.content[2].type = "S"

\* The tokens the validators refuse, in left to right depth first order,
\* each with the context its refusal names.
RECURSIVE OffendersAny(_, _)
RECURSIVE OffendersAnyEach(_, _)
OffendersAnyEach(toks, context) ==
    IF toks = <<>> THEN <<>>
    ELSE OffendersAny(Head(toks), context)
             \o OffendersAnyEach(Tail(toks), context)

OffendersAny(token, context) ==
    IF token.type \in {"FUNCTION", "(", "["}
    THEN OffendersAnyEach(token.content, token.type)
    ELSE IF token.type \in {"S", "IDENT", "DIMENSION", "PERCENTAGE",
                            "NUMBER", "URI", "DELIM", "STRING", "HASH",
                            ":", "UNICODE-RANGE"}
    THEN <<>>
    ELSE <<[token |-> token, context |-> context]>>

RECURSIVE OffendersBlock(_, _)
OffendersBlock(toks, context) ==
    IF toks = <<>> THEN <<>>
    ELSE (IF Head(toks).type \in {";", "ATKEYWORD"} THEN <<>>
          ELSE IF Head(toks).type = "{"
          THEN OffendersBlock(Head(toks).content, context)
          ELSE OffendersAny(Head(toks), context))
             \o OffendersBlock(Tail(toks), context)

Offenders ==
    IF entry = "validate_any"
    THEN OffendersAny(tokens[1], "property value")
    ELSE OffendersBlock(tokens, "property value")

\* some ';' or at-keyword lies, at any depth, inside a function or a
\* parenthesised or bracketed group of `toks`
RECURSIVE FillerInGroup(_, _)
FillerInGroup(toks, grouped) ==
    \E i \in DOMAIN toks :
        \/ grouped /\ toks[i].type \in {";", "ATKEYWORD"}
        \/ FillerInGroup(toks[i].content,
               grouped \/ toks[i].type \in {"FUNCTION", "(", "["})

\* C10: validate_any and validate_block accept exactly the inputs that
\* hold no offending token: for validate_any ';', at-keywords and '{'
\* blocks offend like any type outside its list; validate_block lets ';'
\* and at-keywords pass at block level at any depth of '{}' only.  A ';'
\* or at-keyword inside a function, '(' or '[' group is always refused.
\* The ParseError raised is on the first offending token in left to right
\* depth first order, "unmatched" for '}', ')' and ']' and "unexpected"
\* for the rest.
C10_ValidatorsAcceptGrammar ==
    (entry \in {"validate_any", "validate_block"} /\ pc # "run") =>
        /\ pc = "returned" <=> Offenders = <<>>
        /\ pc = "raised" =>
               LET first == Offenders[1]
               IN  /\ raised.exception = "ParseError"
                   /\ raised.line = first.token.line
                   /\ raised.column = first.token.column
                   /\ raised.reason =
                          (IF first.token.type \in {"}", ")", "]"}
                           THEN "unmatched " ELSE "unexpected ")
                              \o first.token.type \o " token in "
                              \o first.context
        /\ FillerInGroup(tokens, FALSE) => pc = "raised"
        /\ (entry = "validate_any"
              /\ tokens[1].type \in {";", "ATKEYWORD", "{"}) =>
               pc = "raised"

\* a ';' in parentheses inside a block, after a ';' at block level that
\* passed, was refused
C10_Witness ==
    /\ entry = "validate_block"
    /\ pc = "raised"
    /\ Len(tokens) = 1
    /\ tokens[1].type = "{"
    /\ Len(tokens[1].content) = 2
    /\ tokens[1].content[1].type = ";"
    /\ tokens[1].content[2].type = "("
    /\ tokens[1].content[2].content # <<>>
    /\ tokens[1].content[2].content[1].type = ";"
    /\ raised.reason = "unexpected ; token in ("
    /\ raised.column = 4

\* The first top-level '{' or ';' after the at-keyword tokens[1], 0 if
\* there is none, and the tokens before it from the first one that is not
\* white space.
ReadTerminator ==
    FirstIndex({i \in 2..Len(tokens) : tokens[i].type \in {"{", ";"}})

ReadHead ==
    LET start == FirstIndex({i \in 2..(ReadTerminator - 1) :
                                 tokens[i].type # "S"})
    IN  IF start = 0 THEN <<>>
        ELSE SubSeq(tokens, start, ReadTerminator - 1)

\* C11: read_at_rule consumes up to and including the first top-level '{'
\* or ';' and no further (everything when there is none).  It returns an
\* AtRule iff there is such a terminator and every head token satisfies
\* validate_any: the head is the tokens before the terminator without the
\* leading white space, later white space kept; the body is the '{' token,
\* its content not validated, or None after ';'; the at_keyword is in lower
\* case.  It raises 'incomplete at-rule' iff there is no terminator, and a
\* ParseError for the first invalid head token otherwise.
C11_ReadAtRuleHeadAndBody ==
    (entry = "read_at_rule" /\ pc # "run") =>
        /\ pos = IF ReadTerminator = 0 THEN Len(tokens) ELSE ReadTerminator
        /\ pc = "returned" <=>
               /\ ReadTerminator # 0
               /\ OffendersAnyEach(ReadHead, "at-rule head") = <<>>
        /\ pc = "returned" =>
               /\ Len(rules) = 1
               /\ rules[1].at_keyword = "@foo"
               /\ rules[1].head = ReadHead
               /\ rules[1].head = <<>> \/ rules[1].head[1].type # "S"
               /\ rules[1].body = IF tokens[ReadTerminator].type = "{"
                                  THEN tokens[ReadTerminator] ELSE None
               /\ rules[1].line = tokens[1].line
               /\ rules[1].column = tokens[1].column
        /\ pc = "raised" =>
               /\ rules = <<>>
               /\ raised.exception = "ParseError"
               /\ raised.reason = "incomplete at-rule" <=> ReadTerminator = 0
               /\ ReadTerminator = 0 =>
                      raised.column = tokens[Len(tokens)].column
               /\ ReadTerminator # 0 =>
                      LET first ==
                              OffendersAnyEach(ReadHead, "at-rule head")[1]
                      IN  /\ raised.column = first.token.column
                          /\ raised.reason =
                                 (IF first.token.type \in {"}", ")", "]"}
                                  THEN "unmatched " ELSE "unexpected ")
                                     \o first.token.type \o " token in "
                                     \o first.context

\* `@Foo a {}}`, white space before and after `a`: the head is `a` and the
\* white space after it, the body the block with its stray '}'
C11_Witness ==
    /\ entry = "read_at_rule"
    /\ pc = "returned"
    /\ tokens[1].value = "@Foo"
    /\ Len(tokens) = 5
    /\ tokens[2].type = "S"
    /\ pos = 5
    /\ Len(rules) = 1
    /\ rules[1].at_keyword = "@foo"
    /\ Len(rules[1].head) = 2
    /\ rules[1].head[1].type = "IDENT"
    /\ rules[1].head[2].type = "S"
    /\ rules[1].body.type = "{"
    /\ rules[1].body.content[1].type = "}"

=============================================================================
